---- MODULE Spec2Model ----
(***************************************************************************)
(* safe-struct: a declarative binary-struct compiler and pack/unpack       *)
(* engine (src/safestruct).  The model covers the field descriptors        *)
(* (descriptors.py), the schema compiler and the record codec (core.py),   *)
(* together with the part of Python's standard struct module the codec     *)
(* calls (calcsize, pack, unpack, pack_into, unpack_from in the explicit   *)
(* byte orders, standard sizes, no alignment).                             *)
(*                                                                         *)
(* Python integers are unbounded while the integers of the model checker   *)
(* are 32 bits wide, so a Python int is modelled as sign and magnitude,    *)
(* the magnitude being its base-256 digits, least significant first, with  *)
(* no leading zero digit.  Strings are sequences of code points, bytes     *)
(* are sequences of 0..255, format strings are sequences of characters.    *)
(***************************************************************************)
EXTENDS Integers, Sequences, FiniteSets, TLC

VARIABLES registry, defined, last, buffer

vars == <<registry, defined, last, buffer>>

(***************************************************************************)
(* Sequences                                                               *)
(***************************************************************************)
RECURSIVE Reverse(_)
Reverse(s) == IF s = <<>> THEN <<>> ELSE Reverse(Tail(s)) \o <<Head(s)>>

RECURSIVE Flatten(_)
Flatten(ss) == IF ss = <<>> THEN <<>> ELSE Head(ss) \o Flatten(Tail(ss))

RECURSIVE Repeat(_, _)
Repeat(x, n) == IF n <= 0 THEN <<>> ELSE <<x>> \o Repeat(x, n - 1)

\* Python's s[a:b] for 0 <= a, on a sequence indexed from 1
Slice(s, a, b) ==
  LET hi == IF b < Len(s) THEN b ELSE Len(s)
  IN IF a >= hi THEN <<>> ELSE SubSeq(s, a + 1, hi)

RECURSIVE IndexOf(_, _, _)
\* least i >= from with s[i] = x, 0 when there is none
IndexOf(s, x, from) ==
  IF from > Len(s) THEN 0
  ELSE IF s[from] = x THEN from ELSE IndexOf(s, x, from + 1)

(***************************************************************************)
(* Python values                                                           *)
(***************************************************************************)
PyInt(neg, mag) == [t |-> "int", neg |-> neg, mag |-> mag]
PyBool(b) == [t |-> "bool", b |-> b]
PyBytes(d) == [t |-> "bytes", d |-> d]
PyStr(s) == [t |-> "str", s |-> s]
PyList(items) == [t |-> "list", items |-> items]
PyRec(cls, vals) == [t |-> "rec", cls |-> cls, vals |-> vals]
PyNone == [t |-> "none"]
\* a field left at its dataclass default: the descriptor object itself
PyDescriptor(cls, i) == [t |-> "descriptor", cls |-> cls, i |-> i]

(***************************************************************************)
(* Unbounded integers: magnitudes are base-256 digits, least significant   *)
(* first                                                                   *)
(***************************************************************************)
RECURSIVE MagStrip(_)
MagStrip(m) ==
  IF m = <<>> THEN <<>>
  ELSE IF m[Len(m)] = 0 THEN MagStrip(SubSeq(m, 1, Len(m) - 1)) ELSE m

RECURSIVE MagInc(_)
MagInc(m) ==
  IF m = <<>> THEN <<1>>
  ELSE IF m[1] < 255 THEN <<m[1] + 1>> \o Tail(m)
  ELSE <<0>> \o MagInc(Tail(m))

RECURSIVE MagDecRaw(_)
MagDecRaw(m) ==
  IF m[1] > 0 THEN <<m[1] - 1>> \o Tail(m)
  ELSE <<255>> \o MagDecRaw(Tail(m))

\* m - 1 for m > 0
MagDec(m) == MagStrip(MagDecRaw(m))

RECURSIVE MagLeq(_, _)
MagLeq(a, b) ==
  IF Len(a) # Len(b) THEN Len(a) < Len(b)
  ELSE IF a = <<>> THEN TRUE
  ELSE IF a[Len(a)] # b[Len(b)] THEN a[Len(a)] < b[Len(b)]
  ELSE MagLeq(SubSeq(a, 1, Len(a) - 1), SubSeq(b, 1, Len(b) - 1))

\* a <= b on Python ints
IntLeq(a, b) ==
  IF a.neg /\ ~b.neg THEN TRUE
  ELSE IF ~a.neg /\ b.neg THEN FALSE
  ELSE IF a.neg THEN MagLeq(b.mag, a.mag)
  ELSE MagLeq(a.mag, b.mag)

IntSucc(a) ==
  IF a.neg
    THEN LET m == MagDec(a.mag) IN PyInt(m # <<>>, m)
    ELSE PyInt(FALSE, MagInc(a.mag))

IntPred(a) ==
  IF a.neg \/ a.mag = <<>>
    THEN PyInt(TRUE, MagInc(a.mag))
    ELSE PyInt(FALSE, MagDec(a.mag))

\* bool is a subclass of int: isinstance(True, int) holds and True is 1
IsPyInt(v) == v.t \in {"int", "bool"}
AsInt(v) ==
  IF v.t = "bool" THEN PyInt(FALSE, IF v.b THEN <<1>> ELSE <<>>) ELSE v

(***************************************************************************)
(* Python's struct module, as core.py uses it: format strings with an      *)
(* explicit byte-order prefix (standard sizes, no padding)                 *)
(***************************************************************************)
Digits == <<"0", "1", "2", "3", "4", "5", "6", "7", "8", "9">>
IsDigit(c) == \E i \in 1..10 : Digits[i] = c
DigitVal(c) == (CHOOSE i \in 1..10 : Digits[i] = c) - 1

RECURSIVE DecimalChars(_)
\* str(n) for n >= 0, as a sequence of characters
DecimalChars(n) ==
  IF n < 10 THEN <<Digits[n + 1]>>
  ELSE DecimalChars(n \div 10) \o <<Digits[(n % 10) + 1]>>

IntCodes == {"b", "B", "h", "H", "i", "I", "l", "L", "q", "Q"}
FormatCodes == IntCodes \cup {"?", "s"}
SignedCode(c) == c \in {"b", "h", "i", "l", "q"}

\* standard size of a format code under '<', '>' and '!'
StdSize(c) ==
  CASE c \in {"b", "B", "?", "s"} -> 1
    [] c \in {"h", "H"} -> 2
    [] c \in {"i", "I", "l", "L"} -> 4
    [] OTHER -> 8

BigEndian(prefix) == prefix \in {">", "!"}

RECURSIVE ParseTokens(_, _, _)
\* the tokens (repeat count, code) of the characters after the prefix
ParseTokens(chars, count, counted) ==
  IF chars = <<>> THEN [ok |-> ~counted, toks |-> <<>>]
  ELSE LET c == Head(chars) IN
    IF IsDigit(c) THEN ParseTokens(Tail(chars), count * 10 + DigitVal(c), TRUE)
    ELSE IF c \in FormatCodes THEN
      LET rest == ParseTokens(Tail(chars), 0, FALSE)
      IN [ok |-> rest.ok,
          toks |-> <<[n |-> IF counted THEN count ELSE 1, code |-> c]>> \o rest.toks]
    ELSE [ok |-> FALSE, toks |-> <<>>]

ParseFormat(fmt) ==
  IF fmt = <<>> THEN [ok |-> TRUE, toks |-> <<>>]
  ELSE IF Head(fmt) \in {"<", ">", "!", "=", "@"} THEN ParseTokens(Tail(fmt), 0, FALSE)
  ELSE ParseTokens(fmt, 0, FALSE)

RECURSIVE TokensSize(_)
TokensSize(toks) ==
  IF toks = <<>> THEN 0
  ELSE Head(toks).n * StdSize(Head(toks).code) + TokensSize(Tail(toks))

\* a calcsize that pads the struct to a multiple of four bytes, as native
\* alignment would
calcsize_padded(fmt) ==
  LET p == ParseFormat(fmt)
  IN IF p.ok THEN [ok |-> TRUE, size |-> ((TokensSize(p.toks) + 3) \div 4) * 4]
     ELSE [ok |-> FALSE]

\* struct.calcsize
calcsize(fmt) ==
  LET p == ParseFormat(fmt)
  IN IF p.ok THEN [ok |-> TRUE, size |-> TokensSize(p.toks)] ELSE [ok |-> FALSE]

RECURSIVE ExpandTokens(_)
\* one entry per primitive: 'Ns' is one blob of N bytes, 'Nc' is N scalars
ExpandTokens(toks) ==
  IF toks = <<>> THEN <<>>
  ELSE LET k == Head(toks) IN
    (IF k.code = "s" THEN <<k>> ELSE Repeat([n |-> 1, code |-> k.code], k.n))
      \o ExpandTokens(Tail(toks))

\* the range struct enforces for an integer code of n bytes
FitsCode(v, n, signed) ==
  IF ~signed THEN ~v.neg /\ Len(v.mag) <= n
  ELSE IF ~v.neg THEN Len(v.mag) < n \/ (Len(v.mag) = n /\ v.mag[n] <= 127)
  ELSE Len(v.mag) < n
       \/ (Len(v.mag) = n
           /\ (v.mag[n] < 128
               \/ (v.mag[n] = 128 /\ \A i \in 1..(n - 1) : v.mag[i] = 0)))

\* little-endian bytes of an integer that fits n bytes
IntBytes(v, n) ==
  IF ~v.neg THEN v.mag \o Repeat(0, n - Len(v.mag))
  ELSE LET d == MagDec(v.mag)
           padded == d \o Repeat(0, n - Len(d))
       IN [i \in 1..n |-> 255 - padded[i]]

BytesInt(bs, signed) ==
  IF signed /\ bs[Len(bs)] >= 128
    THEN PyInt(TRUE, MagInc(MagStrip([i \in 1..Len(bs) |-> 255 - bs[i]])))
    ELSE PyInt(FALSE, MagStrip(bs))

\* bool(v)
Truthy(v) ==
  CASE v.t = "bool" -> v.b
    [] v.t = "int" -> v.mag # <<>>
    [] v.t = "bytes" -> v.d # <<>>
    [] v.t = "str" -> v.s # <<>>
    [] v.t = "list" -> v.items # <<>>
    [] v.t = "none" -> FALSE
    [] OTHER -> TRUE

\* one primitive encoded for token k: struct.error when the value has the
\* wrong type or does not fit
EncodePrim(k, v, big) ==
  CASE k.code = "s" ->
         IF v.t # "bytes" THEN [ok |-> FALSE, bytes |-> <<>>]
         ELSE [ok |-> TRUE,
               bytes |-> Slice(v.d, 0, k.n) \o Repeat(0, k.n - Len(v.d))]
    [] k.code = "?" ->
         [ok |-> TRUE, bytes |-> <<IF Truthy(v) THEN 1 ELSE 0>>]
    [] OTHER ->
         IF ~IsPyInt(v) THEN [ok |-> FALSE, bytes |-> <<>>]
         ELSE IF ~FitsCode(AsInt(v), StdSize(k.code), SignedCode(k.code))
           THEN [ok |-> FALSE, bytes |-> <<>>]
         ELSE LET le == IntBytes(AsInt(v), StdSize(k.code))
              IN [ok |-> TRUE, bytes |-> IF big THEN Reverse(le) ELSE le]

DecodePrim(k, bs, big) ==
  CASE k.code = "s" -> PyBytes(bs)
    [] k.code = "?" -> PyBool(bs[1] # 0)
    [] OTHER -> BytesInt(IF big THEN Reverse(bs) ELSE bs, SignedCode(k.code))

PrimSize(k) == IF k.code = "s" THEN k.n ELSE StdSize(k.code)

RECURSIVE EncodePrims(_, _, _)
\* the primitives encoded in order; on failure, the bytes produced before it
EncodePrims(ks, vs, big) ==
  IF ks = <<>> THEN [ok |-> TRUE, bytes |-> <<>>]
  ELSE LET e == EncodePrim(Head(ks), Head(vs), big) IN
    IF ~e.ok THEN [ok |-> FALSE, bytes |-> <<>>]
    ELSE LET rest == EncodePrims(Tail(ks), Tail(vs), big)
         IN [ok |-> rest.ok, bytes |-> e.bytes \o rest.bytes]

RECURSIVE DecodePrims(_, _, _)
DecodePrims(ks, bs, big) ==
  IF ks = <<>> THEN <<>>
  ELSE LET n == PrimSize(Head(ks)) IN
    <<DecodePrim(Head(ks), SubSeq(bs, 1, n), big)>>
      \o DecodePrims(Tail(ks), SubSeq(bs, n + 1, Len(bs)), big)

\* struct.pack(fmt, *values): bytes, or struct.error
struct_pack(fmt, values) ==
  LET p == ParseFormat(fmt)
      ks == ExpandTokens(p.toks)
  IN IF ~p.ok \/ Len(ks) # Len(values) THEN [ok |-> FALSE, bytes |-> <<>>]
     ELSE EncodePrims(ks, values, BigEndian(Head(fmt)))

\* struct.unpack(fmt, buffer): the buffer must hold exactly calcsize bytes
struct_unpack(fmt, buf) ==
  LET p == ParseFormat(fmt)
  IN IF ~p.ok \/ Len(buf) # TokensSize(p.toks) THEN [ok |-> FALSE, values |-> <<>>]
     ELSE [ok |-> TRUE,
           values |-> DecodePrims(ExpandTokens(p.toks), buf, BigEndian(Head(fmt)))]

\* the offset struct works at, -1 when it raises struct.error: a negative
\* offset counts from the end and must leave room for the whole struct
StructOffset(size, buflen, offset) ==
  IF offset < 0
    THEN IF offset + size > 0 \/ offset + buflen < 0 THEN -1 ELSE offset + buflen
    ELSE IF buflen - offset < size THEN -1 ELSE offset

\* struct.unpack_from(fmt, buffer, offset)
struct_unpack_from(fmt, buf, offset) ==
  LET p == ParseFormat(fmt)
      size == TokensSize(p.toks)
      at == StructOffset(size, Len(buf), offset)
  IN IF ~p.ok \/ at < 0 THEN [ok |-> FALSE, values |-> <<>>]
     ELSE [ok |-> TRUE,
           values |-> DecodePrims(ExpandTokens(p.toks),
                                  SubSeq(buf, at + 1, at + size),
                                  BigEndian(Head(fmt)))]

RECURSIVE EncodedPrefix(_, _, _)
\* the bytes struct has written when encoding stops at the first failure
EncodedPrefix(ks, vs, big) ==
  IF ks = <<>> \/ vs = <<>> THEN <<>>
  ELSE LET e == EncodePrim(Head(ks), Head(vs), big) IN
    IF ~e.ok THEN <<>> ELSE e.bytes \o EncodedPrefix(Tail(ks), Tail(vs), big)

\* struct.pack_into(fmt, buffer, offset, *values): the buffer afterwards.
\* The target range is zeroed and then written primitive by primitive, so a
\* failing primitive leaves the earlier ones written.
struct_pack_into(fmt, buf, offset, values) ==
  LET p == ParseFormat(fmt)
      ks == ExpandTokens(p.toks)
      size == TokensSize(p.toks)
      at == StructOffset(size, Len(buf), offset)
      big == BigEndian(Head(fmt))
  IN IF ~p.ok \/ Len(ks) # Len(values) \/ at < 0 THEN [ok |-> FALSE, buf |-> buf]
     ELSE LET e == EncodePrims(ks, values, big)
              done == IF e.ok THEN e.bytes ELSE EncodedPrefix(ks, values, big)
              region == done \o Repeat(0, size - Len(done))
          IN [ok |-> e.ok,
              buf |-> SubSeq(buf, 1, at) \o region \o SubSeq(buf, at + size + 1, Len(buf))]

(***************************************************************************)
(* Text encoding: str.encode / bytes.decode for utf-8, code points below    *)
(* 65536 (lone surrogates do not encode)                                   *)
(***************************************************************************)
IsSurrogate(cp) == cp >= 55296 /\ cp <= 57343

EncodeChar(cp) ==
  IF cp < 128 THEN <<cp>>
  ELSE IF cp < 2048 THEN <<192 + (cp \div 64), 128 + (cp % 64)>>
  ELSE <<224 + (cp \div 4096), 128 + ((cp \div 64) % 64), 128 + (cp % 64)>>

\* value.encode("utf-8"): the bytes, or UnicodeEncodeError
Utf8Encode(s) ==
  IF \E i \in 1..Len(s) : IsSurrogate(s[i]) THEN [ok |-> FALSE, bytes |-> <<>>]
  ELSE [ok |-> TRUE, bytes |-> Flatten([i \in 1..Len(s) |-> EncodeChar(s[i])])]

IsCont(b) == b >= 128 /\ b <= 191

RECURSIVE Utf8Decode(_)
\* data.decode("utf-8"): the code points, or UnicodeDecodeError
Utf8Decode(bs) ==
  IF bs = <<>> THEN [ok |-> TRUE, s |-> <<>>]
  ELSE LET b == bs[1] IN
    IF b < 128 THEN
      LET r == Utf8Decode(Tail(bs)) IN [ok |-> r.ok, s |-> <<b>> \o r.s]
    ELSE IF b >= 194 /\ b <= 223 /\ Len(bs) >= 2 /\ IsCont(bs[2]) THEN
      LET r == Utf8Decode(SubSeq(bs, 3, Len(bs)))
      IN [ok |-> r.ok, s |-> <<(b - 192) * 64 + (bs[2] - 128)>> \o r.s]
    ELSE IF b >= 224 /\ b <= 239 /\ Len(bs) >= 3 /\ IsCont(bs[2]) /\ IsCont(bs[3]) THEN
      LET cp == (b - 224) * 4096 + (bs[2] - 128) * 64 + (bs[3] - 128)
          r == Utf8Decode(SubSeq(bs, 4, Len(bs)))
      IN IF cp < 2048 \/ IsSurrogate(cp) THEN [ok |-> FALSE, s |-> <<>>]
         ELSE [ok |-> r.ok, s |-> <<cp>> \o r.s]
    ELSE [ok |-> FALSE, s |-> <<>>]

(***************************************************************************)
(* descriptors.py                                                          *)
(***************************************************************************)
\* the wire width the table _INTEGER_LIMITS takes each code to have
LimitWidth(c) ==
  CASE c \in {"b", "B"} -> 1
    [] c \in {"h", "H"} -> 2
    [] c \in {"i", "I"} -> 4
    [] OTHER -> 8

\* _INTEGER_LIMITS[c] = (min, max)
INTEGER_LIMITS(c) ==
  LET w == LimitWidth(c) IN
  IF SignedCode(c)
    THEN [min |-> PyInt(TRUE, Repeat(0, w - 1) \o <<128>>),
          max |-> PyInt(FALSE, Repeat(255, w - 1) \o <<127>>)]
    ELSE [min |-> PyInt(FALSE, <<>>), max |-> PyInt(FALSE, Repeat(255, w))]

RECURSIVE LStripOrder(_)
\* struct_char.lstrip("@=<>!")
LStripOrder(chars) ==
  IF chars # <<>> /\ Head(chars) \in {"@", "=", "<", ">", "!"}
    THEN LStripOrder(Tail(chars)) ELSE chars

\* the caller-supplied predicates ("check=") of the test definitions
Check(name, v) ==
  CASE name = "ge_minus1" -> IntLeq(PyInt(TRUE, <<1>>), AsInt(v))
    [] name = "checksum" ->
         IntLeq(PyInt(FALSE, <<0, 239>>), AsInt(v))
           /\ IntLeq(AsInt(v), PyInt(FALSE, <<255, 255>>))
    [] name = "zero_byte" -> v = PyBytes(<<0>>)
    [] OTHER -> TRUE

Failed(exc) == [ok |-> FALSE, exc |-> exc]

\* IntField.__init__
IntField(struct_char, check) ==
  LET base_char == LStripOrder(struct_char) IN
  IF ~(Len(base_char) = 1 /\ base_char[1] \in IntCodes) THEN Failed("FormatError")
  ELSE [ok |-> TRUE,
        d |-> [kind |-> "IntField", struct_char |-> struct_char, check |-> check,
               min_val |-> INTEGER_LIMITS(base_char[1]).min,
               max_val |-> INTEGER_LIMITS(base_char[1]).max]]

\* BooleanField.__init__
BooleanField(struct_char, check) ==
  IF struct_char # <<"?">> THEN Failed("FormatError")
  ELSE [ok |-> TRUE,
        d |-> [kind |-> "BooleanField", struct_char |-> struct_char, check |-> check]]

\* BytesField.__init__
BytesField(length, check) ==
  IF length <= 0 THEN Failed("FormatError")
  ELSE [ok |-> TRUE,
        d |-> [kind |-> "BytesField", struct_char |-> DecimalChars(length) \o <<"s">>,
               check |-> check, length |-> length]]

\* TextField.__init__
TextField(length, encoding, check) ==
  IF length <= 0 THEN Failed("FormatError")
  ELSE [ok |-> TRUE,
        d |-> [kind |-> "TextField", struct_char |-> DecimalChars(length) \o <<"s">>,
               check |-> check, length |-> length, encoding |-> encoding]]

\* ArrayField.__init__, given the constructed item descriptor
ArrayField(item, count) ==
  IF count <= 0 THEN Failed("FormatError")
  ELSE IF item.kind \notin {"IntField", "BooleanField"} THEN Failed("FormatError")
  ELSE IF Len(item.struct_char) > 1 THEN Failed("FormatError")
  ELSE [ok |-> TRUE,
        d |-> [kind |-> "ArrayField",
               struct_char |-> DecimalChars(count) \o item.struct_char,
               check |-> "any", count |-> count, item |-> item]]

\* hasattr(struct_class, "_safestruct_format")
HasFormat(reg, cls) == reg[cls].status \in {"compiled", "struct.error"}

\* SubStructField.__init__
SubStructField(reg, struct_class) ==
  IF ~HasFormat(reg, struct_class) THEN Failed("FormatError")
  ELSE [ok |-> TRUE,
        d |-> [kind |-> "SubStructField",
               struct_char |-> Tail(reg[struct_class].format),
               check |-> "any", struct_class |-> struct_class]]

\* validators whose Boolean check takes any integer for a boolean
ScalarValidator_coercing(d, v) ==
  CASE d.kind = "IntField" ->
         /\ IsPyInt(v)
         /\ IntLeq(d.min_val, AsInt(v)) /\ IntLeq(AsInt(v), d.max_val)
         /\ Check(d.check, v)
    [] d.kind = "BooleanField" -> IsPyInt(v) /\ Check(d.check, v)
    [] OTHER -> FALSE

\* validators in which the custom predicate stands in for the range check
ScalarValidator_override(d, v) ==
  CASE d.kind = "IntField" -> IsPyInt(v) /\ Check(d.check, v)
    [] d.kind = "BooleanField" -> v.t = "bool" /\ Check(d.check, v)
    [] OTHER -> FALSE

\* the checks combined_check makes before it calls the custom predicate:
\* the isinstance test and the range or length test
BuiltinCheck(d, v) ==
  CASE d.kind = "IntField" ->
         /\ IsPyInt(v)
         /\ IntLeq(d.min_val, AsInt(v)) /\ IntLeq(AsInt(v), d.max_val)
    [] d.kind = "BooleanField" -> v.t = "bool"
    [] d.kind = "BytesField" -> v.t = "bytes" /\ Len(v.d) = d.length
    [] d.kind = "TextField" ->
         /\ v.t = "str"
         /\ Utf8Encode(v.s).ok
         /\ Len(Utf8Encode(v.s).bytes) <= d.length
    [] OTHER -> TRUE

\* the values combined_check hands to the custom predicate: the value
\* itself once the built-in checks have passed, nothing otherwise
CheckCalls(d, v) == IF BuiltinCheck(d, v) THEN <<v>> ELSE <<>>

\* the validators of the scalar descriptors (combined_check)
ScalarValidator(d, v) ==
  CASE d.kind \in {"IntField", "BooleanField"} ->
         /\ CheckCalls(d, v) # <<>>
         /\ Check(d.check, CheckCalls(d, v)[1])
    [] OTHER -> FALSE

\* validators whose array check forgets the element count
Validator_anylength(d, v) ==
  CASE d.kind \in {"IntField", "BooleanField"} -> ScalarValidator(d, v)
    [] d.kind = "BytesField" ->
         v.t = "bytes" /\ Len(v.d) = d.length /\ Check(d.check, v)
    [] d.kind = "TextField" ->
         /\ v.t = "str"
         /\ Utf8Encode(v.s).ok
         /\ Len(Utf8Encode(v.s).bytes) <= d.length
         /\ Check(d.check, v)
    [] d.kind = "ArrayField" ->
         /\ v.t = "list"
         /\ \A i \in 1..Len(v.items) : ScalarValidator(d.item, v.items[i])
    [] OTHER -> TRUE

\* descriptor.get_validator()(value)
Validator(d, v) ==
  CASE d.kind \in {"IntField", "BooleanField"} -> ScalarValidator(d, v)
    [] d.kind \in {"BytesField", "TextField"} ->
         /\ CheckCalls(d, v) # <<>>
         /\ Check(d.check, CheckCalls(d, v)[1])
    [] d.kind = "ArrayField" ->
         /\ v.t = "list"
         /\ Len(v.items) = d.count
         /\ \A i \in 1..Len(v.items) : ScalarValidator(d.item, v.items[i])
    [] OTHER -> TRUE

\* TextField.pack_value: encode, then ljust with zero bytes
TextPackValue(d, v) ==
  LET encoded == Utf8Encode(v.s).bytes
  IN PyBytes(encoded \o Repeat(0, d.length - Len(encoded)))

RECURSIVE RStripZeros(_)
\* bs without its trailing zero bytes
RStripZeros(bs) ==
  IF bs # <<>> /\ bs[Len(bs)] = 0 THEN RStripZeros(SubSeq(bs, 1, Len(bs) - 1)) ELSE bs

\* an unpack_value that strips the trailing zero bytes only
TextUnpackValue_rstrip(d, raw) ==
  LET dec == Utf8Decode(RStripZeros(raw.d))
  IN IF dec.ok THEN [ok |-> TRUE, v |-> PyStr(dec.s)] ELSE Failed("UnicodeDecodeError")

\* TextField.unpack_value: cut at the first zero byte, then decode
TextUnpackValue(d, raw) ==
  LET null_index == IndexOf(raw.d, 0, 1)
      data_bytes == IF null_index # 0 THEN SubSeq(raw.d, 1, null_index - 1) ELSE raw.d
      dec == Utf8Decode(data_bytes)
  IN IF dec.ok THEN [ok |-> TRUE, v |-> PyStr(dec.s)] ELSE Failed("UnicodeDecodeError")

HasPackValue(d) == d.kind \in {"BytesField", "TextField", "ArrayField"}

(***************************************************************************)
(* The record types: the definitions of tests/defs.py and of the tests,    *)
(* and further ones that combine the descriptors in the ways the schema    *)
(* compiler admits.  A type is declared by its byte order and its fields,  *)
(* in declaration order (a child before the parents that nest it).         *)
(***************************************************************************)
FInt(name, char, check) == [name |-> name, f |-> "IntField", char |-> <<char>>, check |-> check]
FIntRaw(name, chars) == [name |-> name, f |-> "IntField", char |-> chars, check |-> "any"]
FBool(name) == [name |-> name, f |-> "BooleanField", char |-> <<"?">>, check |-> "any"]
FBytes(name, length, check) == [name |-> name, f |-> "BytesField", length |-> length, check |-> check]
FText(name, length) ==
  [name |-> name, f |-> "TextField", length |-> length, encoding |-> "utf-8", check |-> "any"]
FArray(name, item, count) == [name |-> name, f |-> "ArrayField", item |-> item, count |-> count]
FSub(name, cls) == [name |-> name, f |-> "SubStructField", cls |-> cls]
FPlain(name) == [name |-> name, f |-> "plain"]

Class(name, order, body) == [name |-> name, order |-> order, body |-> body]

\* one single-field type for each integer code the descriptor accepts
IntClass(c, order) == Class("Int_" \o c, order, <<FInt("value", c, "any")>>)

ClassDecls ==
  << Class("Header", "!", <<FInt("version", "B", "any"), FInt("length", "H", "any"),
                            FInt("status", "b", "ge_minus1")>>),
     Class("Packet", "<", <<FBool("flag"), FInt("sequence", "I", "any")>>),
     Class("SensorData", ">", <<FInt("timestamp", "Q", "any"),
                                FArray("readings", FInt("item", "I", "any"), 4),
                                FInt("checksum", "H", "checksum")>>),
     Class("Envelope", "<", <<FSub("data", "SensorData"), FInt("crc", "B", "any")>>),
     Class("UserRecord", "!", <<FInt("user_id", "I", "any"), FText("username", 16),
                                FBool("is_admin")>>),
     Class("Labelled", ">", <<FSub("user", "UserRecord"), FBool("live")>>),
     Class("ProtocolMessage", "<", <<FInt("magic", "H", "any"), FBytes("id", 4, "any"),
                                     FBytes("reserved", 1, "zero_byte")>>),
     Class("UnsafeHeader", "plain", <<FPlain("a")>>),
     Class("BadStruct", "!", <<FPlain("version")>>),
     Class("NativeStruct", "=", <<FInt("value", "I", "any")>>),
     Class("StandardStruct", "@", <<FInt("value", "I", "any")>>),
     Class("PrefixedChar", "<", <<FIntRaw("value", <<">", "H">>)>>),
     Class("BadInt", "<", <<FInt("value", "f", "any")>>),
     Class("BadArray", "<", <<FArray("items", FText("item", 10), 5)>>),
     Class("BadSub", "<", <<FSub("header", "UnsafeHeader")>>),
     Class("Flags", ">", <<FArray("bits", FBool("item"), 2), FInt("level", "h", "any")>>),
     Class("Tag", "<", <<FText("label", 3), FInt("code", "B", "any")>>),
     Class("Levels", ">", <<FArray("levels", FInt("item", "b", "ge_minus1"), 2),
                            FBool("armed")>>),
     IntClass("b", "<"), IntClass("B", ">"), IntClass("h", "!"), IntClass("H", "<"),
     IntClass("i", ">"), IntClass("I", "!"), IntClass("l", "<"), IntClass("L", ">"),
     IntClass("q", "!"), IntClass("Q", "<"),
     Class("SubStructMessage", "<", <<FSub("header", "Header"),
                                      FInt("payload_id", "L", "any")>>),
     Class("Outer", "!", <<FInt("kind", "B", "any"), FSub("inner", "Int_L"),
                           FInt("tail", "B", "any")>>) >>

ClassNames == {ClassDecls[i].name : i \in 1..Len(ClassDecls)}

Undefined == [status |-> "undefined"]

\* evaluating one field of a class body: the descriptor, or the exception
\* its constructor raises
MakeItem(reg, spec) ==
  CASE spec.f = "IntField" -> IntField(spec.char, spec.check)
    [] spec.f = "BooleanField" -> BooleanField(spec.char, spec.check)
    [] spec.f = "BytesField" -> BytesField(spec.length, spec.check)
    [] spec.f = "TextField" -> TextField(spec.length, spec.encoding, spec.check)
    [] spec.f = "SubStructField" -> SubStructField(reg, spec.cls)
    [] OTHER -> [ok |-> TRUE, d |-> [kind |-> "plain"]]

MakeDescriptor(reg, spec) ==
  IF spec.f = "ArrayField"
    THEN LET item == MakeItem(reg, spec.item)
         IN IF ~item.ok THEN item ELSE ArrayField(item.d, spec.count)
    ELSE MakeItem(reg, spec)

\* _compile_format_string: the format string and the field map (in
\* declaration order), or TypeError for a field that is no descriptor
compile_format_string(name, prefix, descs) ==
  IF \E i \in 1..Len(descs) : descs[i].d.kind = "plain" THEN Failed("TypeError")
  ELSE
    [ok |-> TRUE,
     format |-> <<prefix>> \o Flatten([i \in 1..Len(descs) |-> descs[i].d.struct_char]),
     field_map |->
       [i \in 1..Len(descs) |->
         LET descriptor == descs[i].d
             struct_char == descriptor.struct_char
         IN [name |-> descs[i].name,
             char |-> struct_char,
             descriptor |-> descriptor,
             num_primitives |->
               IF descriptor.kind = "SubStructField" THEN Len(struct_char)
               ELSE IF descriptor.kind = "ArrayField" THEN descriptor.count
               ELSE 1]]]

\* a struct() that takes every byte order
RejectedOrder_none(order) == FALSE

\* the byte orders struct() refuses: ByteOrder.NATIVE and ByteOrder.STANDARD
RejectedOrder(order) == order \in {"=", "@"}

\* struct(order)(cls), the class body included: what the type is afterwards
struct_wrap(reg, decl) ==
  IF RejectedOrder(decl.order) THEN [status |-> "FormatError"]
  ELSE
    LET made == [i \in 1..Len(decl.body) |->
                   LET m == MakeDescriptor(reg, decl.body[i])
                   IN IF m.ok THEN [ok |-> TRUE, name |-> decl.body[i].name, d |-> m.d]
                      ELSE [ok |-> FALSE, name |-> decl.body[i].name]]
    IN IF \E i \in 1..Len(made) : ~made[i].ok THEN [status |-> "FormatError"]
       ELSE IF decl.order = "plain" THEN [status |-> "plain", nfields |-> Len(made)]
       ELSE
         LET c == compile_format_string(decl.name, decl.order, made) IN
         IF ~c.ok THEN [status |-> "TypeError"]
         ELSE LET sz == calcsize(c.format) IN
           IF ~sz.ok
             THEN [status |-> "struct.error", format |-> c.format,
                   field_map |-> c.field_map]
             ELSE [status |-> "compiled", format |-> c.format,
                   field_map |-> c.field_map, size |-> sz.size,
                   nfields |-> Len(made)]

Compiled(reg, cls) == cls \in DOMAIN reg /\ reg[cls].status = "compiled"

(***************************************************************************)
(* core.py: the record codec.  Every operation returns its outcome (the    *)
(* value or the exception raised) and the log of the steps it took: the    *)
(* validators run, the fields flattened, the calls into struct.            *)
(***************************************************************************)
NoExc == [kind |-> "none"]
Ev(e, cls, field) == [e |-> e, cls |-> cls, field |-> field]

ValidationError(field, cls, value) ==
  [kind |-> "ValidationError", field |-> field, cls |-> cls, value |-> value]
PackingError(cls, format) == [kind |-> "PackingError", cls |-> cls, format |-> format]
UnpackingError(why, cls, expected, actual) ==
  [kind |-> "UnpackingError", why |-> why, cls |-> cls,
   expected |-> expected, actual |-> actual]
Raised(kind) == [kind |-> kind]

\* cls(*args) of a dataclass whose fields default to their descriptors
Construct(reg, cls, args) ==
  IF Len(args) > reg[cls].nfields THEN Failed(Raised("TypeError"))
  ELSE [ok |-> TRUE,
        v |-> PyRec(cls, [i \in 1..reg[cls].nfields |->
                            IF i <= Len(args) THEN args[i] ELSE PyDescriptor(cls, i)])]

\* hasattr(value, "pack"): an instance of a compiled type
HasPack(reg, value) == value.t = "rec" /\ Compiled(reg, value.cls)

RECURSIVE FlattenFrom(_, _, _, _, _, _)
RECURSIVE pack(_, _)

\* a _flatten_values that hands the primitives over last field first
flatten_values_reversed(reg, instance, cls) ==
  LET flat == FlattenFrom(reg, instance, cls, 1, <<>>, <<>>)
  IN [flat EXCEPT !.values = Reverse(flat.values)]

\* _flatten_values(instance, cls)
flatten_values(reg, instance, cls) == FlattenFrom(reg, instance, cls, 1, <<>>, <<>>)

\* a decoding of the nested record's bytes as little-endian, whatever the
\* nested type declares
unpack_sub_little(reg, struct_class, packed_sub_bytes) ==
  struct_unpack(<<"<">> \o Tail(reg[struct_class].format), packed_sub_bytes)

\* the primitives of a nested record, decoded from its own packed bytes with
\* its own format string
unpack_sub(reg, struct_class, packed_sub_bytes) ==
  struct_unpack(reg[struct_class].format, packed_sub_bytes)

\* the loop of _flatten_values from field i on, with the values and the log
\* so far
FlattenFrom(reg, instance, cls, i, values, log) ==
  IF i > Len(reg[cls].field_map) THEN [ok |-> TRUE, values |-> values, exc |-> NoExc, log |-> log]
  ELSE
    LET field_info == reg[cls].field_map[i]
        field_name == field_info.name
        value == instance.vals[i]
        descriptor == field_info.descriptor
        log1 == Append(log, Ev("validate", cls, field_name))
    IN
    IF ~Validator(descriptor, value)
      THEN [ok |-> FALSE, values |-> values,
            exc |-> ValidationError(field_name, cls, value), log |-> log1]
    ELSE IF descriptor.kind = "SubStructField" THEN
      IF ~HasPack(reg, value)
        THEN [ok |-> FALSE, values |-> values, exc |-> Raised("AttributeError"), log |-> log1]
      ELSE
        LET packed == pack(reg, value)
            log2 == log1 \o packed.log
        IN IF ~packed.ok
             THEN [ok |-> FALSE, values |-> values, exc |-> packed.exc, log |-> log2]
           ELSE
             LET sub_values == unpack_sub(reg, descriptor.struct_class, packed.bytes)
                 log3 == Append(log2, Ev("decode", descriptor.struct_class, field_name))
             IN IF ~sub_values.ok
                  THEN [ok |-> FALSE, values |-> values,
                        exc |-> Raised("struct.error"), log |-> log3]
                  ELSE FlattenFrom(reg, instance, cls, i + 1, values \o sub_values.values,
                                   Append(log3, Ev("flatten", cls, field_name)))
    ELSE IF HasPackValue(descriptor) THEN
      LET packed_sub_value ==
            IF descriptor.kind = "TextField" THEN <<TextPackValue(descriptor, value)>>
            ELSE IF descriptor.kind = "ArrayField" THEN value.items
            ELSE <<value>>
      IN FlattenFrom(reg, instance, cls, i + 1, values \o packed_sub_value,
                     Append(log1, Ev("flatten", cls, field_name)))
    ELSE FlattenFrom(reg, instance, cls, i + 1, Append(values, value),
                     Append(log1, Ev("flatten", cls, field_name)))

\* self.pack()
pack(reg, self) ==
  LET cls == self.cls
      format_string == reg[cls].format
      flat == flatten_values(reg, self, cls)
  IN IF ~flat.ok THEN [ok |-> FALSE, bytes |-> <<>>, exc |-> flat.exc, log |-> flat.log]
     ELSE
       LET enc == struct_pack(format_string, flat.values)
           log == Append(flat.log, Ev("encode", cls, ""))
       IN IF enc.ok THEN [ok |-> TRUE, bytes |-> enc.bytes, exc |-> NoExc, log |-> log]
          ELSE [ok |-> FALSE, bytes |-> <<>>,
                exc |-> PackingError(cls, format_string), log |-> log]

\* a pack_into that writes at the start of the buffer, whatever the offset
pack_into_at_start(reg, self, buf, offset) ==
  LET cls == self.cls
      format_string == reg[cls].format
      flat == flatten_values(reg, self, cls)
  IN IF ~flat.ok THEN [ok |-> FALSE, buf |-> buf, exc |-> flat.exc, log |-> flat.log]
     ELSE
       LET enc == struct_pack_into(format_string, buf, 0, flat.values)
           log == Append(flat.log, Ev("encode", cls, ""))
       IN IF enc.ok THEN [ok |-> TRUE, buf |-> enc.buf, exc |-> NoExc, log |-> log]
          ELSE [ok |-> FALSE, buf |-> enc.buf,
                exc |-> PackingError(cls, format_string), log |-> log]

\* a pack_into that writes each field as soon as it has passed, so that a
\* failing field leaves the buffer with the earlier fields written
pack_into_eager(reg, self, buf, offset) ==
  LET cls == self.cls
      format_string == reg[cls].format
      flat == flatten_values(reg, self, cls)
  IN IF ~flat.ok
       THEN [ok |-> FALSE,
             buf |-> Repeat(0, Len(flat.values)) \o SubSeq(buf, Len(flat.values) + 1, Len(buf)),
             exc |-> flat.exc, log |-> flat.log]
     ELSE
       LET enc == struct_pack_into(format_string, buf, offset, flat.values)
           log == Append(flat.log, Ev("encode", cls, ""))
       IN IF enc.ok THEN [ok |-> TRUE, buf |-> enc.buf, exc |-> NoExc, log |-> log]
          ELSE [ok |-> FALSE, buf |-> enc.buf,
                exc |-> PackingError(cls, format_string), log |-> log]

\* self.pack_into(buffer, offset): the outcome and the buffer afterwards
pack_into(reg, self, buf, offset) ==
  LET cls == self.cls
      format_string == reg[cls].format
      flat == flatten_values(reg, self, cls)
  IN IF ~flat.ok THEN [ok |-> FALSE, buf |-> buf, exc |-> flat.exc, log |-> flat.log]
     ELSE
       LET enc == struct_pack_into(format_string, buf, offset, flat.values)
           log == Append(flat.log, Ev("encode", cls, ""))
       IN IF enc.ok THEN [ok |-> TRUE, buf |-> enc.buf, exc |-> NoExc, log |-> log]
          ELSE [ok |-> FALSE, buf |-> enc.buf,
                exc |-> PackingError(cls, format_string), log |-> log]

RECURSIVE ReconstructFrom(_, _, _, _, _, _, _)
\* the cursor loop of unpack (checked = FALSE) and of unpack_from (checked =
\* TRUE, which tests the slice before it looks at the descriptor)
ReconstructFrom(reg, cls, unpacked_values, i, value_cursor, instance_args, checked) ==
  IF i > Len(reg[cls].field_map) THEN [ok |-> TRUE, args |-> instance_args, cursor |-> value_cursor]
  ELSE
    LET field_info == reg[cls].field_map[i]
        descriptor == field_info.descriptor
        num_primitives == field_info.num_primitives
        primitive_slice ==
          Slice(unpacked_values, value_cursor, value_cursor + num_primitives)
        cursor == value_cursor + num_primitives
        corrupted == Failed(UnpackingError("corrupted", cls, num_primitives, 0))
    IN
    IF checked /\ primitive_slice = <<>> /\ num_primitives > 0 THEN corrupted
    ELSE IF descriptor.kind = "SubStructField" THEN
      LET nested_instance == Construct(reg, descriptor.struct_class, primitive_slice)
      IN IF ~nested_instance.ok THEN nested_instance
         ELSE ReconstructFrom(reg, cls, unpacked_values, i + 1, cursor,
                              Append(instance_args, nested_instance.v), checked)
    ELSE IF descriptor.kind = "ArrayField" THEN
      ReconstructFrom(reg, cls, unpacked_values, i + 1, cursor,
                      Append(instance_args, PyList(primitive_slice)), checked)
    ELSE IF primitive_slice = <<>> THEN
      IF checked THEN Failed(Raised("IndexError")) ELSE corrupted
    ELSE IF descriptor.kind = "TextField" THEN
      IF primitive_slice[1].t # "bytes" THEN Failed(Raised("AttributeError"))
      ELSE
        LET text == TextUnpackValue(descriptor, primitive_slice[1])
        IN IF ~text.ok THEN Failed(Raised(text.exc))
           ELSE ReconstructFrom(reg, cls, unpacked_values, i + 1, cursor,
                                Append(instance_args, text.v), checked)
    ELSE ReconstructFrom(reg, cls, unpacked_values, i + 1, cursor,
                         Append(instance_args, primitive_slice[1]), checked)

\* what unpack and unpack_from return once struct has decoded the buffer
Rebuild(reg, cls, unpacked_values, checked, log) ==
  LET r == ReconstructFrom(reg, cls, unpacked_values, 1, 0, <<>>, checked)
  IN IF ~r.ok THEN [ok |-> FALSE, v |-> PyNone, exc |-> r.exc, log |-> log]
     ELSE [ok |-> TRUE, v |-> PyRec(cls, r.args), exc |-> NoExc, log |-> log]

\* cls.unpack(buffer)
unpack(reg, cls, buf) ==
  LET format_string == reg[cls].format
      expected_size == reg[cls].size
  IN IF Len(buf) < expected_size
       THEN [ok |-> FALSE, v |-> PyNone,
             exc |-> UnpackingError("too small", cls, expected_size, Len(buf)),
             log |-> <<>>]
     ELSE
       LET dec == struct_unpack(format_string, buf)
           log == <<Ev("decode", cls, "")>>
       IN IF ~dec.ok
            THEN [ok |-> FALSE, v |-> PyNone,
                  exc |-> UnpackingError("struct.error", cls, expected_size, Len(buf)),
                  log |-> log]
            ELSE Rebuild(reg, cls, dec.values, FALSE, log)

\* an unpack_from whose size check forgets the offset
unpack_from_unshifted(reg, cls, buf, offset) ==
  LET format_string == reg[cls].format
      expected_size == reg[cls].size
  IN IF Len(buf) < expected_size
       THEN [ok |-> FALSE, v |-> PyNone,
             exc |-> UnpackingError("too small", cls, expected_size, Len(buf)),
             log |-> <<>>]
     ELSE
       LET dec == struct_unpack_from(format_string, buf, offset)
           log == <<Ev("decode", cls, "")>>
       IN IF ~dec.ok
            THEN [ok |-> FALSE, v |-> PyNone,
                  exc |-> UnpackingError("struct.error", cls, expected_size, Len(buf)),
                  log |-> log]
            ELSE Rebuild(reg, cls, dec.values, TRUE, log)

\* cls.unpack_from(buffer, offset)
unpack_from(reg, cls, buf, offset) ==
  LET format_string == reg[cls].format
      expected_size == reg[cls].size
  IN IF Len(buf) < offset + expected_size
       THEN [ok |-> FALSE, v |-> PyNone,
             exc |-> UnpackingError("too small", cls, expected_size, Len(buf)),
             log |-> <<>>]
     ELSE
       LET dec == struct_unpack_from(format_string, buf, offset)
           log == <<Ev("decode", cls, "")>>
       IN IF ~dec.ok
            THEN [ok |-> FALSE, v |-> PyNone,
                  exc |-> UnpackingError("struct.error", cls, expected_size, Len(buf)),
                  log |-> log]
            ELSE Rebuild(reg, cls, dec.values, TRUE, log)

(***************************************************************************)
(* The values the callers hand to the codec.  For each field: the values   *)
(* at and next to every limit that decides its fate (the validator's, the  *)
(* wire width's, the custom predicate's), and values of the wrong type.    *)
(***************************************************************************)
\* how many bytes a caller puts before or after a packed record in a buffer
MaxExtra == 2

Nat0(mag) == PyInt(FALSE, mag)
Neg0(mag) == PyInt(TRUE, mag)

\* the range struct gives code c under an explicit byte order
StdLimits(c) ==
  LET w == StdSize(c) IN
  IF SignedCode(c)
    THEN [min |-> Neg0(Repeat(0, w - 1) \o <<128>>),
          max |-> Nat0(Repeat(255, w - 1) \o <<127>>)]
    ELSE [min |-> Nat0(<<>>), max |-> Nat0(Repeat(255, w))]

BaseCode(d) == LStripOrder(d.struct_char)[1]

\* a value the field accepts and encodes
Nominal(d) ==
  CASE d.kind = "IntField" ->
         IF d.check = "checksum" THEN Nat0(<<1, 240>>) ELSE Nat0(<<1>>)
    [] d.kind = "BooleanField" -> PyBool(TRUE)
    [] d.kind = "BytesField" -> PyBytes(Repeat(0, d.length))
    [] d.kind = "TextField" -> PyStr(<<65>>)
    [] d.kind = "ArrayField" ->
         PyList([i \in 1..d.count |->
                   IF d.item.kind = "IntField" THEN Nat0(<<10 * i>>) ELSE PyBool(i = 1)])
    [] OTHER -> PyNone

WrongType == {PyNone, PyStr(<<49>>)}

ScalarSamples(d) ==
  IF d.kind = "IntField" THEN
    LET lim == StdLimits(BaseCode(d)) IN
      { d.min_val, d.max_val, IntPred(d.min_val), IntSucc(d.max_val),
        lim.min, lim.max, IntPred(lim.min), IntSucc(lim.max),
        Nat0(<<>>), Nat0(<<1>>), Neg0(<<1>>), Neg0(<<2>>),
        Nat0(<<255, 238>>), Nat0(<<0, 239>>), PyBool(TRUE) } \cup WrongType
  ELSE { PyBool(TRUE), PyBool(FALSE), Nat0(<<1>>), Nat0(<<>>) } \cup WrongType

\* the largest value a scalar field accepts, and a value it rejects
LeafTop(d) == IF d.kind = "IntField" THEN d.max_val ELSE PyBool(FALSE)
LeafBad(d) == IF d.kind = "IntField" THEN IntSucc(d.max_val) ELSE Nat0(<<1>>)

\* every sample of a field that is no nested record
LeafSamples(d) ==
  CASE d.kind \in {"IntField", "BooleanField"} -> ScalarSamples(d)
    [] d.kind = "BytesField" ->
         { PyBytes(Repeat(0, d.length)), PyBytes(Repeat(65, d.length)),
           PyBytes(Repeat(255, d.length)), PyBytes(Repeat(65, d.length + 1)),
           PyBytes(Repeat(65, d.length - 1)), PyStr(Repeat(65, d.length)) }
    [] d.kind = "TextField" ->
         { PyStr(<<>>), PyStr(<<65>>), PyStr(Repeat(65, d.length)),
           PyStr(Repeat(65, d.length + 1)),
           PyStr(Repeat(233, (d.length \div 2) + 1)),
           PyStr(<<233>>), PyStr(<<8364>>), PyStr(<<65, 0, 66>>), PyStr(<<0>>),
           PyStr(<<55296>>), PyBytes(<<65>>), PyNone }
    [] d.kind = "ArrayField" ->
         LET ok == Nominal(d).items
             item == Nominal(d.item)
         IN { PyList(ok), PyList(Repeat(item, d.count)),
              PyList(Repeat(LeafTop(d.item), d.count)),
              PyList(SubSeq(ok, 1, d.count - 1)), PyList(Append(ok, item)),
              PyList([ok EXCEPT ![d.count] = PyStr(<<50, 48>>)]),
              PyList([ok EXCEPT ![1] = LeafBad(d.item)]),
              PyList([ok EXCEPT ![d.count] = LeafBad(d.item)]),
              PyList([ok EXCEPT ![1] = Neg0(<<2>>)]),
              PyNone, item }
    [] OTHER -> {}

\* two samples of a leaf field: one it accepts, one it rejects
LeafPair(d) ==
  CASE d.kind = "IntField" -> {Nominal(d), IntSucc(d.max_val)}
    [] d.kind = "BooleanField" -> {Nominal(d), Nat0(<<1>>)}
    [] d.kind = "BytesField" -> {Nominal(d), PyBytes(Repeat(65, d.length + 1))}
    [] d.kind = "TextField" -> {Nominal(d), PyStr(Repeat(65, d.length + 1))}
    [] d.kind = "ArrayField" -> {Nominal(d), PyList(SubSeq(Nominal(d).items, 1, d.count - 1))}
    [] OTHER -> {}

RECURSIVE SeqProduct(_)
\* the sequences that take their i-th element from the i-th set
SeqProduct(sets) ==
  IF sets = <<>> THEN {<<>>}
  ELSE {<<x>> \o rest : x \in Head(sets), rest \in SeqProduct(Tail(sets))}

\* records of the tests
Examples(cls) ==
  CASE cls = "SensorData" ->
         { PyRec(cls, <<Nat0(<<0, 198, 17, 100>>),
                        PyList(<<Nat0(<<10>>), Nat0(<<20>>), Nat0(<<30>>), Nat0(<<40>>)>>),
                        Nat0(<<1, 240>>)>>) }
    [] cls = "Header" ->
         { PyRec(cls, <<Nat0(<<1>>), Nat0(<<0, 4>>), Nat0(<<1>>)>>),
           PyRec(cls, <<Nat0(<<5>>), Nat0(<<0, 4>>), Neg0(<<5>>)>>) }
    [] cls = "SubStructMessage" ->
         { PyRec(cls, <<PyRec("Header", <<Nat0(<<1>>), Nat0(<<0, 4>>), Nat0(<<1>>)>>),
                        Nat0(<<239, 190, 173, 222>>)>>) }
    [] cls = "UserRecord" ->
         { PyRec(cls, <<Nat0(<<123>>), PyStr(<<65, 108, 105, 99, 101>>), PyBool(TRUE)>>) }
    [] cls = "ProtocolMessage" ->
         { PyRec(cls, <<Nat0(<<1>>), PyBytes(<<68, 65, 84, 65>>), PyBytes(<<1>>)>>) }
    [] OTHER -> {}

RECURSIVE NominalRecord(_, _)
\* the record of cls whose fields all hold their nominal value
NominalRecord(reg, cls) ==
  PyRec(cls, [i \in 1..Len(reg[cls].field_map) |->
                LET d == reg[cls].field_map[i].descriptor
                IN IF d.kind = "SubStructField" THEN NominalRecord(reg, d.struct_class)
                   ELSE Nominal(d)])

RECURSIVE Records(_, _)
\* the records of cls the callers build: every pairing of an accepted and a
\* rejected value per field, and every sample of one field with the other
\* fields nominal
Records(reg, cls) ==
  LET fm == reg[cls].field_map
      nom == NominalRecord(reg, cls).vals
      \* a value that is no instance of the nested type
      strangers(d) == { PyNone, NominalRecord(reg, "Packet"),
                        PyRec("UnsafeHeader", <<Nat0(<<1>>)>>) }
      pair(d) ==
        IF d.kind = "SubStructField"
          THEN LET child == NominalRecord(reg, d.struct_class)
               IN { child, PyNone,
                    [child EXCEPT !.vals[1] = PyStr(<<49>>)] }
          ELSE LeafPair(d)
      all(d) ==
        IF d.kind = "SubStructField"
          THEN Records(reg, d.struct_class) \cup strangers(d)
          ELSE LeafSamples(d)
  IN { PyRec(cls, vals) : vals \in SeqProduct([i \in 1..Len(fm) |-> pair(fm[i].descriptor)]) }
     \cup UNION { { PyRec(cls, [nom EXCEPT ![i] = x]) : x \in all(fm[i].descriptor) } :
                    i \in 1..Len(fm) }
     \cup Examples(cls)

\* the buffers handed to unpack: every packed record, the nominal record's
\* bytes cut short or followed by further bytes, and all-ones
UnpackBuffers(reg, cls) ==
  LET nb == pack(reg, NominalRecord(reg, cls)).bytes
      long == nb \o Repeat(221, MaxExtra)
  IN { pack(reg, r).bytes : r \in { x \in Records(reg, cls) : pack(reg, x).ok } }
     \cup { SubSeq(long, 1, n) : n \in 0..Len(long) }
     \cup { Repeat(255, reg[cls].size) }

\* the (buffer, offset) pairs handed to unpack_from
UnpackFromInputs(reg, cls) ==
  LET size == reg[cls].size
      nb == pack(reg, NominalRecord(reg, cls)).bytes
      whole(k) == Repeat(204, k) \o nb \o Repeat(221, MaxExtra)
      offsets == { 0 - (size + 1), 0 - size, -1 } \cup (0..MaxExtra)
  IN UNION { { <<SubSeq(whole(k), 1, n), off>> :
                 n \in { m \in {k + size - 1, k + size, k + size + MaxExtra} : m >= 0 },
                 off \in offsets } :
             k \in 0..MaxExtra }

\* the records handed to pack_into and the (buffer length, offset) pairs
PackIntoRecords(reg, cls) ==
  LET fm == reg[cls].field_map
      nom == NominalRecord(reg, cls).vals
      \* the nominal record with one field, the last one included, rejected
      rejected ==
        UNION { { PyRec(cls, [nom EXCEPT ![i] = x]) : x \in LeafPair(fm[i].descriptor) } :
                  i \in 1..Len(fm) }
  IN { r \in Records(reg, cls) :
         \/ pack(reg, r).ok
         \/ pack(reg, r).exc.kind # "ValidationError"
         \/ r \in Examples(cls) }
     \cup rejected

PackIntoPlaces(size) ==
  { <<size + MaxExtra, 0>>, <<size + MaxExtra, MaxExtra>>, <<size + MaxExtra, MaxExtra + 1>>,
    <<size + MaxExtra, 0 - size>>, <<size, -1>> }
  \cup (IF size > 0 THEN {<<size - 1, 0>>} ELSE {})

(***************************************************************************)
(* The state machine.  registry: what each record type is after its        *)
(* definition ran (the attributes struct() attached, or the exception      *)
(* that ended the definition); defined: how many definitions have run;     *)
(* last: the call in progress, its arguments and its outcome; buffer: the  *)
(* buffer that call was given, as the call left it.                        *)
(***************************************************************************)
\* The compiled schema of a class after one codec call on it.  pack,
\* pack_into, unpack and unpack_from read cls._safestruct_format,
\* cls._safestruct_size and cls._safestruct_field_map and assign none of them.
SchemaAfterCall_resized(reg, cls) == [reg EXCEPT ![cls].size = 0]

SchemaAfterCall(reg, cls) == reg

\* The record after pack or pack_into.  _flatten_values reads each field with
\* getattr and extends its own list `values`; it never assigns to the record.
InstanceAfterCall(self) == self

Idle == [op |-> "none"]

Init ==
  /\ registry = [c \in ClassNames |-> Undefined]
  /\ defined = 0
  /\ last = Idle
  /\ buffer = <<>>

\* the next type definition runs: its fields' descriptors are constructed
\* and struct(order) is applied to the class
Define ==
  /\ last = Idle
  /\ defined < Len(ClassDecls)
  /\ LET decl == ClassDecls[defined + 1]
     IN registry' = [registry EXCEPT ![decl.name] = struct_wrap(registry, decl)]
  /\ defined' = defined + 1
  /\ UNCHANGED <<last, buffer>>

Pack ==
  /\ last = Idle
  /\ \E cls \in ClassNames :
       /\ Compiled(registry, cls)
       /\ \E self \in Records(registry, cls) :
            last' = [op |-> "pack", cls |-> cls, self |-> self,
                     after |-> InstanceAfterCall(self),
                     out |-> pack(registry, self)]
       /\ registry' = SchemaAfterCall(registry, cls)
  /\ buffer' = <<>>
  /\ UNCHANGED defined

PackInto ==
  /\ last = Idle
  /\ \E cls \in ClassNames :
       /\ Compiled(registry, cls)
       /\ \E self \in PackIntoRecords(registry, cls),
             place \in PackIntoPlaces(registry[cls].size) :
            /\ last' = [op |-> "pack_into", cls |-> cls, self |-> self,
                        after |-> InstanceAfterCall(self),
                        before |-> Repeat(170, place[1]), offset |-> place[2],
                        out |-> pack_into(registry, self, Repeat(170, place[1]), place[2])]
            /\ buffer' = last'.out.buf
       /\ registry' = SchemaAfterCall(registry, cls)
  /\ UNCHANGED defined

Unpack ==
  /\ last = Idle
  /\ \E cls \in ClassNames :
       /\ Compiled(registry, cls)
       /\ \E buf \in UnpackBuffers(registry, cls) :
            /\ last' = [op |-> "unpack", cls |-> cls, arg |-> buf, offset |-> 0,
                        out |-> unpack(registry, cls, buf)]
            /\ buffer' = buf
       /\ registry' = SchemaAfterCall(registry, cls)
  /\ UNCHANGED defined

UnpackFrom ==
  /\ last = Idle
  /\ \E cls \in ClassNames :
       /\ Compiled(registry, cls)
       /\ \E inp \in UnpackFromInputs(registry, cls) :
            /\ last' = [op |-> "unpack_from", cls |-> cls, arg |-> inp[1],
                        offset |-> inp[2],
                        out |-> unpack_from(registry, cls, inp[1], inp[2])]
            /\ buffer' = inp[1]
       /\ registry' = SchemaAfterCall(registry, cls)
  /\ UNCHANGED defined

\* the caller takes the outcome of the call
Return ==
  /\ last # Idle
  /\ last' = Idle
  /\ buffer' = <<>>
  /\ UNCHANGED <<registry, defined>>

Next == Define \/ Pack \/ PackInto \/ Unpack \/ UnpackFrom \/ Return

Spec == Init /\ [][Next]_vars

(***************************************************************************)
(* What the claims speak of                                                *)
(***************************************************************************)
IsPack == last.op = "pack"
IsPackLike == last.op \in {"pack", "pack_into"}
IsUnpackLike == last.op \in {"unpack", "unpack_from"}

FieldMap(cls) == registry[cls].field_map

RECURSIVE DeepValid(_, _, _)
\* v is an instance of cls, each of its fields passes its validator, and so
\* on through its nested records
DeepValid(reg, cls, v) ==
  /\ v.t = "rec"
  /\ v.cls = cls
  /\ \A i \in 1..Len(reg[cls].field_map) :
       LET d == reg[cls].field_map[i].descriptor IN
         /\ Validator(d, v.vals[i])
         /\ d.kind = "SubStructField" => DeepValid(reg, d.struct_class, v.vals[i])

RECURSIVE PyEq(_, _)
\* a == b in Python: True == 1, lists and dataclass instances compare
\* element by element
PyEq(a, b) ==
  IF IsPyInt(a) /\ IsPyInt(b) THEN AsInt(a) = AsInt(b)
  ELSE IF a.t = "list" /\ b.t = "list" THEN
    Len(a.items) = Len(b.items) /\ \A i \in 1..Len(a.items) : PyEq(a.items[i], b.items[i])
  ELSE IF a.t = "rec" /\ b.t = "rec" THEN
    /\ a.cls = b.cls
    /\ Len(a.vals) = Len(b.vals)
    /\ \A i \in 1..Len(a.vals) : PyEq(a.vals[i], b.vals[i])
  ELSE a = b

\* C1. Round-trip law: for every compiled schema and every record whose
\* field values all pass validation, unpack(pack(r)) succeeds and returns a
\* record equal to r field for field.
C1_RoundTrip ==
  (IsPack /\ DeepValid(registry, last.cls, last.self)) =>
    /\ last.out.ok
    /\ LET back == unpack(registry, last.cls, last.out.bytes)
       IN back.ok /\ PyEq(back.v, last.self)

\* C2. Size invariant: for every compiled schema and every record whose
\* fields all pass validation, pack returns exactly schemaSize bytes.
C2_SizeInvariant ==
  (IsPack /\ DeepValid(registry, last.cls, last.self)) =>
    last.out.ok /\ Len(last.out.bytes) = registry[last.cls].size

\* the declared byte order of a compiled type
Order(cls) == Head(registry[cls].format)

\* whether an integer fits the wire width of its field, so that it has an
\* encoding at all
LeafFits(d, v) ==
  CASE d.kind = "IntField" ->
         FitsCode(AsInt(v), StdSize(BaseCode(d)), SignedCode(BaseCode(d)))
    [] d.kind = "ArrayField" /\ d.item.kind = "IntField" ->
         \A i \in 1..Len(v.items) :
           FitsCode(AsInt(v.items[i]), StdSize(BaseCode(d.item)), SignedCode(BaseCode(d.item)))
    [] OTHER -> TRUE

RECURSIVE Encodable(_, _)
Encodable(cls, v) ==
  \A i \in 1..Len(FieldMap(cls)) :
    LET d == FieldMap(cls)[i].descriptor IN
      IF d.kind = "SubStructField" THEN Encodable(d.struct_class, v.vals[i])
      ELSE LeafFits(d, v.vals[i])

\* the encoding of one scalar in the given byte order
DirectScalar(d, v, big) ==
  IF d.kind = "BooleanField" THEN <<IF v.b THEN 1 ELSE 0>>
  ELSE LET le == IntBytes(AsInt(v), StdSize(BaseCode(d)))
       IN IF big THEN Reverse(le) ELSE le

\* the encoding of a field that is no nested record
DirectLeaf(d, v, big) ==
  CASE d.kind \in {"IntField", "BooleanField"} -> DirectScalar(d, v, big)
    [] d.kind = "BytesField" -> v.d
    [] d.kind = "TextField" ->
         Utf8Encode(v.s).bytes \o Repeat(0, d.length - Len(Utf8Encode(v.s).bytes))
    [] OTHER -> Flatten([i \in 1..Len(v.items) |-> DirectScalar(d.item, v.items[i], big)])

RECURSIVE DirectEncoding(_, _, _)
\* the encodings of the fields of v, an instance of cls, one after the
\* other in declared order, all in one byte order
DirectEncoding(cls, v, big) ==
  Flatten([i \in 1..Len(FieldMap(cls)) |->
             LET d == FieldMap(cls)[i].descriptor IN
               IF d.kind = "SubStructField"
                 THEN DirectEncoding(d.struct_class, v.vals[i], big)
                 ELSE DirectLeaf(d, v.vals[i], big)])

SensorExample == CHOOSE r \in Examples("SensorData") : TRUE

\* big-endian Q, I, I, I, I, H of (1678886400, 10, 20, 30, 40, 0xF001)
SensorBytes ==
  <<0, 0, 0, 0, 100, 17, 198, 0, 0, 0, 0, 10, 0, 0, 0, 20, 0, 0, 0, 30,
    0, 0, 0, 40, 240, 1>>

\* C3. pack(r) is the direct concatenation, in declared field order, of the
\* encodings of each field's primitives in the schema's own byte order: one
\* primitive for a scalar, the elements in index order for an array, the
\* child's fields in the child's declared order for a nested record; it
\* exists when every integer fits its wire width.  SensorData(1678886400,
\* [10, 20, 30, 40], 0xF001) packs to the 26 bytes of big-endian Q,I,I,I,I,H.
C3_DirectConcatenation ==
  (IsPack /\ DeepValid(registry, last.cls, last.self)) =>
    /\ last.out.ok <=> Encodable(last.cls, last.self)
    /\ last.out.ok =>
         last.out.bytes = DirectEncoding(last.cls, last.self, BigEndian(Order(last.cls)))
    /\ last.self = SensorExample => last.out.bytes = SensorBytes

C3_Witness ==
  /\ IsPack /\ last.out.ok
  /\ last.self = SensorExample
  /\ DeepValid(registry, last.cls, last.self)
  /\ last.out.bytes = SensorBytes

\* the offset of field i in the packed record: the wire sizes of the fields
\* before it
FieldOffset(cls, i) ==
  TokensSize(ParseTokens(Flatten([j \in 1..(i - 1) |-> FieldMap(cls)[j].char]), 0, FALSE).toks)

NestedFields(cls) ==
  {i \in 1..Len(FieldMap(cls)) : FieldMap(cls)[i].descriptor.kind = "SubStructField"}

\* the bytes of the packed record that belong to nested field i
NestedBytes(i) ==
  LET child == FieldMap(last.cls)[i].descriptor.struct_class
  IN SubSeq(last.out.bytes, FieldOffset(last.cls, i) + 1,
            FieldOffset(last.cls, i) + registry[child].size)

\* C4 as claimed. Nested composition: the bytes of pack(parent) at the
\* nested field's offset are byte-identical to the child value's own pack()
\* output, whatever the byte orders declared for parent and child.
C4_NestedIsChildPack ==
  (IsPack /\ last.out.ok /\ DeepValid(registry, last.cls, last.self)) =>
    \A i \in NestedFields(last.cls) :
      NestedBytes(i) = pack(registry, last.self.vals[i]).bytes

\* C4 as amended. The bytes of pack(parent) at the nested field's offset are
\* the child's primitives encoded in the parent's byte order; they are
\* byte-identical to the child's own pack() output when parent and child
\* declare the same endianness.
C4_NestedInParentOrder ==
  (IsPack /\ last.out.ok /\ DeepValid(registry, last.cls, last.self)) =>
    \A i \in NestedFields(last.cls) :
      LET child == FieldMap(last.cls)[i].descriptor.struct_class IN
        /\ NestedBytes(i) =
             DirectEncoding(child, last.self.vals[i], BigEndian(Order(last.cls)))
        /\ BigEndian(Order(last.cls)) = BigEndian(Order(child)) =>
             NestedBytes(i) = pack(registry, last.self.vals[i]).bytes

C4_Witness ==
  /\ IsPack /\ last.out.ok
  /\ last.cls = "SubStructMessage"
  /\ last.self \in Examples("SubStructMessage")
  /\ NestedBytes(1) = <<1, 0, 4, 1>>
  /\ pack(registry, last.self.vals[1]).bytes = <<1, 4, 0, 1>>

\* the declaration a type was compiled from
Decl(cls) == ClassDecls[CHOOSE k \in 1..Len(ClassDecls) : ClassDecls[k].name = cls]

\* the wire token a declared field stands for
DeclaredItemToken(f) ==
  CASE f.f = "IntField" -> f.char
    [] f.f = "BooleanField" -> <<"?">>
    [] f.f \in {"BytesField", "TextField"} -> DecimalChars(f.length) \o <<"s">>
    [] OTHER -> Tail(registry[f.cls].format)

DeclaredToken(f) ==
  IF f.f = "ArrayField" THEN DecimalChars(f.count) \o DeclaredItemToken(f.item)
  ELSE DeclaredItemToken(f)

\* the number of bytes a declared field occupies on the wire
DeclaredItemSize(f) ==
  CASE f.f = "IntField" -> StdSize(f.char[1])
    [] f.f = "BooleanField" -> 1
    [] f.f \in {"BytesField", "TextField"} -> f.length
    [] OTHER -> registry[f.cls].size

DeclaredSize(f) ==
  IF f.f = "ArrayField" THEN f.count * DeclaredItemSize(f.item) ELSE DeclaredItemSize(f)

RECURSIVE Sum(_)
Sum(s) == IF s = <<>> THEN 0 ELSE Head(s) + Sum(Tail(s))

\* C5. The format string of a compiled schema is exactly the byte-order
\* prefix followed by each field's wire token in declaration order (array:
\* the count followed by the item token; nested record: the child's format
\* string without its order prefix), and the schema size is the sum of the
\* wire sizes of all fields, with no padding.
C5_FormatAndSize ==
  \A cls \in ClassNames :
    Compiled(registry, cls) =>
      LET body == Decl(cls).body IN
        /\ registry[cls].format =
             <<Decl(cls).order>> \o Flatten([i \in 1..Len(body) |-> DeclaredToken(body[i])])
        /\ registry[cls].size = Sum([i \in 1..Len(body) |-> DeclaredSize(body[i])])
        /\ Len(registry[cls].field_map) = Len(body)
        /\ \A i \in 1..Len(body) : registry[cls].field_map[i].name = body[i].name

C5_Witness ==
  /\ Compiled(registry, "Envelope")
  /\ registry["Envelope"].format = <<"<", "Q", "4", "I", "H", "B">>
  /\ registry["Envelope"].size = 27
  /\ Compiled(registry, "UserRecord")
  /\ registry["UserRecord"].format = <<"!", "I", "1", "6", "s", "?">>
  /\ registry["UserRecord"].size = 21

\* the number of primitives a wire token decodes to
TokenPrimitives(chars) == Len(ExpandTokens(ParseTokens(chars, 0, FALSE).toks))

\* the cursor of the unpack loop after the last field
FinalCursor(cls) ==
  Sum([i \in 1..Len(FieldMap(cls)) |-> FieldMap(cls)[i].num_primitives])

\* C6. For every compiled schema, each field's recorded primitive count is
\* the number of primitives its wire token decodes to (1 for scalar, bytes
\* and text fields, the count for an array, the child's total primitive
\* count, arrays and blobs included, for a nested record), so that the
\* cursor of unpack after the last field is the number of decoded
\* primitives.
C6_PrimitiveCount ==
  \A cls \in ClassNames :
    Compiled(registry, cls) =>
      /\ \A i \in 1..Len(FieldMap(cls)) :
           FieldMap(cls)[i].num_primitives = TokenPrimitives(FieldMap(cls)[i].char)
      /\ FinalCursor(cls) = TokenPrimitives(Tail(registry[cls].format))

\* the fields of the record being packed that come before field i are
\* valid: their validators accept them, and a nested record among them is
\* valid throughout
ValidBefore(i) ==
  \A j \in 1..(i - 1) :
    LET d == FieldMap(last.cls)[j].descriptor IN
      /\ Validator(d, last.self.vals[j])
      /\ d.kind = "SubStructField" => DeepValid(registry, d.struct_class, last.self.vals[j])

\* the fields before field i are valid and a nested record among them has
\* an encoding
Before(i) ==
  /\ ValidBefore(i)
  /\ \A j \in 1..(i - 1) :
       LET d == FieldMap(last.cls)[j].descriptor IN
         d.kind = "SubStructField" => Encodable(d.struct_class, last.self.vals[j])

\* v is an integer within the range of the wire width and signedness of
\* integer code c
InWireRange(c, v) ==
  /\ IsPyInt(v)
  /\ IntLeq(StdLimits(c).min, AsInt(v))
  /\ IntLeq(AsInt(v), StdLimits(c).max)

\* C7. For every supported integer token, the Integer validator accepts a
\* value iff it is an integer within [min, max] of the field's wire width
\* (1, 2, 4 or 8 bytes) and signedness: min and max are accepted, min-1 and
\* max+1 are rejected, and pack of a rejected value raises ValidationError
\* naming the field, the owning type and the value.
C7_IntegerRange ==
  IsPackLike =>
    \A i \in 1..Len(FieldMap(last.cls)) :
      LET d == FieldMap(last.cls)[i].descriptor
          v == last.self.vals[i]
      IN (d.kind = "IntField" /\ d.check = "any") =>
           /\ Validator(d, v) <=> InWireRange(BaseCode(d), v)
           /\ (~InWireRange(BaseCode(d), v) /\ Before(i)) =>
                /\ ~last.out.ok
                /\ last.out.exc = ValidationError(FieldMap(last.cls)[i].name, last.cls, v)

\* C8. A Boolean field's validator accepts only the two boolean values: a
\* record whose boolean field holds the integer 1, or any other non-boolean,
\* never packs, and when the fields before it pass, the failure is the
\* ValidationError of that field, type and value.
C8_BooleanStrict ==
  IsPackLike =>
    \A i \in 1..Len(FieldMap(last.cls)) :
      LET d == FieldMap(last.cls)[i].descriptor
          v == last.self.vals[i]
      IN (d.kind = "BooleanField" /\ v.t # "bool") =>
           /\ ~Validator(d, v)
           /\ ~last.out.ok
           /\ Before(i) =>
                last.out.exc = ValidationError(FieldMap(last.cls)[i].name, last.cls, v)

C8_Witness ==
  /\ IsPack
  /\ last.cls = "Packet"
  /\ last.self.vals = <<Nat0(<<1>>), Nat0(<<1>>)>>
  /\ last.out.exc = ValidationError("flag", "Packet", Nat0(<<1>>))

\* C9. Truncation: whenever len(buffer) - offset < schemaSize (offset = 0
\* for unpack), unpack and unpack_from fail with the UnpackingError of the
\* size pre-check, which reports the expected and the actual size, and the
\* binary decode is never attempted.
C9_Truncation ==
  (IsUnpackLike /\ Len(last.arg) - last.offset < registry[last.cls].size) =>
    /\ ~last.out.ok
    /\ last.out.exc =
         UnpackingError("too small", last.cls, registry[last.cls].size, Len(last.arg))
    /\ last.out.log = <<>>

C9_Witness ==
  /\ last.op = "unpack_from"
  /\ last.offset = 1
  /\ Len(last.arg) = registry[last.cls].size
  /\ Len(last.arg) > 1
  /\ last.out.exc.kind = "UnpackingError"

C9_WitnessUnpack ==
  /\ last.op = "unpack"
  /\ Len(last.arg) = registry[last.cls].size - 1
  /\ last.out.exc.kind = "UnpackingError"

\* the names of the fields declared after field i
LaterFields(i) ==
  {FieldMap(last.cls)[j].name : j \in (i + 1)..Len(FieldMap(last.cls))}

\* C10. Fail-fast validation in schema order: when a field fails validation
\* and the fields before it are valid, pack and pack_into raise the
\* ValidationError of that field (with owning type and offending value), no
\* later field is validated or flattened, and binary encoding is never
\* invoked.
C10_FailFast ==
  IsPackLike =>
    \A i \in 1..Len(FieldMap(last.cls)) :
      LET d == FieldMap(last.cls)[i].descriptor
          v == last.self.vals[i]
      IN (~Validator(d, v) /\ ValidBefore(i)) =>
           /\ ~last.out.ok
           /\ last.out.exc = ValidationError(FieldMap(last.cls)[i].name, last.cls, v)
           /\ \A k \in 1..Len(last.out.log) :
                /\ last.out.log[k].e # "encode"
                /\ last.out.log[k].cls = last.cls => last.out.log[k].field \notin LaterFields(i)

\* where pack_into writes: a negative offset counts from the end of the
\* buffer
WriteStart == IF last.offset < 0 THEN Len(last.before) + last.offset ELSE last.offset

\* C11. After a successful pack_into(buffer, offset), the schemaSize bytes
\* of the buffer from the offset on are pack() of the same record, every
\* byte outside that range is unchanged, and the buffer has the length it
\* had; the range lies within the buffer.
C11_PackIntoFrame ==
  (last.op = "pack_into" /\ last.out.ok) =>
    LET size == registry[last.cls].size IN
      /\ Len(buffer) = Len(last.before)
      /\ pack(registry, last.self).ok
      /\ WriteStart >= 0 /\ WriteStart + size <= Len(buffer)
      /\ SubSeq(buffer, WriteStart + 1, WriteStart + size) = pack(registry, last.self).bytes
      /\ \A k \in 1..Len(buffer) :
           (k <= WriteStart \/ k > WriteStart + size) => buffer[k] = last.before[k]

C11_Witness ==
  /\ last.op = "pack_into" /\ last.out.ok
  /\ last.cls = "Header"
  /\ last.offset = MaxExtra
  /\ buffer = Repeat(170, MaxExtra) \o pack(registry, last.self).bytes
  /\ last.self.vals[2] = Nat0(<<0, 4>>)

\* C12. Validation runs before any write: when pack_into fails with
\* ValidationError, whichever field failed (the last one in schema order
\* included), no byte of the caller's buffer has been modified.
C12_NoWriteOnValidationError ==
  (last.op = "pack_into" /\ last.out.exc.kind = "ValidationError") =>
    /\ ~last.out.ok
    /\ buffer = last.before

C12_Witness ==
  /\ last.op = "pack_into"
  /\ last.cls = "Header"
  /\ last.out.exc = ValidationError("status", "Header", Neg0(<<5>>))
  /\ Len(last.before) > registry["Header"].size
  /\ buffer = last.before

\* the text fields of a type
TextFields(cls) ==
  {i \in 1..Len(FieldMap(cls)) : FieldMap(cls)[i].descriptor.kind = "TextField"}

RECURSIVE BeforeFirstZero(_)
\* the bytes of bs before its first zero byte; all of bs when it has none
BeforeFirstZero(bs) ==
  IF bs = <<>> \/ Head(bs) = 0 THEN <<>> ELSE <<Head(bs)>> \o BeforeFirstZero(Tail(bs))

\* where unpack and unpack_from read: a negative offset counts from the end
ReadStart == IF last.offset < 0 THEN Len(last.arg) + last.offset ELSE last.offset

\* the n bytes of text field i in the buffer that was unpacked
TextBlob(i) ==
  SubSeq(last.arg, ReadStart + FieldOffset(last.cls, i) + 1,
         ReadStart + FieldOffset(last.cls, i) + FieldMap(last.cls)[i].descriptor.length)

ItemPasses(item, x) ==
  /\ IF item.kind = "IntField"
       THEN IsPyInt(x) /\ IntLeq(item.min_val, AsInt(x)) /\ IntLeq(AsInt(x), item.max_val)
       ELSE x.t = "bool"
  /\ Check(item.check, x)

\* C14. An array field of count elements validates iff its value is a list
\* of exactly count elements each of which passes the item descriptor's
\* validator (built-in type and range check, and the item's custom
\* predicate); a short, long or wrongly-typed-element array makes pack fail
\* with the ValidationError of the array field.
C14_ArrayValidation ==
  IsPackLike =>
    \A i \in 1..Len(FieldMap(last.cls)) :
      LET d == FieldMap(last.cls)[i].descriptor
          v == last.self.vals[i]
      IN d.kind = "ArrayField" =>
           /\ Validator(d, v) <=>
                /\ v.t = "list"
                /\ Len(v.items) = d.count
                /\ \A k \in 1..Len(v.items) : ItemPasses(d.item, v.items[k])
           /\ (~Validator(d, v) /\ Before(i)) =>
                /\ ~last.out.ok
                /\ last.out.exc = ValidationError(FieldMap(last.cls)[i].name, last.cls, v)

C14_Witness ==
  /\ IsPack
  /\ last.cls = "SensorData"
  /\ last.self.vals[2] = PyList(<<Nat0(<<10>>), Nat0(<<20>>), Nat0(<<30>>)>>)
  /\ last.out.exc = ValidationError("readings", "SensorData", last.self.vals[2])

C14_WitnessItemPredicate ==
  /\ IsPack
  /\ last.cls = "Levels"
  /\ last.self.vals[1] = PyList(<<Neg0(<<2>>), Nat0(<<20>>)>>)
  /\ last.out.exc.kind = "ValidationError"

\* the types whose definition has run
Defined == {ClassDecls[k].name : k \in 1..defined}

\* every field of the declaration is a descriptor that can be constructed
\* and whose token struct understands
SoundBody(cls) ==
  \A i \in 1..Len(Decl(cls).body) :
    /\ Decl(cls).body[i].f # "plain"
    /\ MakeDescriptor(registry, Decl(cls).body[i]).ok
    /\ ParseTokens(MakeDescriptor(registry, Decl(cls).body[i]).d.struct_char, 0, FALSE).ok

\* C15. Schema compilation accepts exactly the little, big and network byte
\* orders and fails with FormatError for the native and standard orders;
\* after such a rejection the record type carries no compiled schema (no
\* format string, size or field map) and no codec entry points.
C15_ByteOrders ==
  /\ \A cls \in Defined :
       /\ Decl(cls).order \in {"=", "@"} =>
            /\ registry[cls] = [status |-> "FormatError"]
            /\ ~Compiled(registry, cls)
            /\ ~HasFormat(registry, cls)
       /\ (Decl(cls).order \in {"<", ">", "!"} /\ SoundBody(cls)) => Compiled(registry, cls)
  /\ last # Idle => Decl(last.cls).order \in {"<", ">", "!"}

C15_Witness ==
  /\ registry["NativeStruct"] = [status |-> "FormatError"]
  /\ registry["StandardStruct"] = [status |-> "FormatError"]
  /\ Compiled(registry, "Int_I")
  /\ Decl("Int_I").body = Decl("NativeStruct").body

\* v lies in the built-in domain of a field: the type, and the range or
\* length, its descriptor stands for
InDomain(d, v) ==
  CASE d.kind = "IntField" ->
         /\ v.t \in {"int", "bool"}
         /\ IntLeq(INTEGER_LIMITS(BaseCode(d)).min, AsInt(v))
         /\ IntLeq(AsInt(v), INTEGER_LIMITS(BaseCode(d)).max)
    [] d.kind = "BooleanField" -> v \in {PyBool(TRUE), PyBool(FALSE)}
    [] d.kind = "BytesField" -> v.t = "bytes" /\ Len(v.d) = d.length
    [] OTHER -> v.t = "str" /\ Utf8Encode(v.s).ok /\ Len(Utf8Encode(v.s).bytes) <= d.length

\* C16. Custom predicates have AND semantics: for integer, boolean, bytes
\* and text fields a value passes validation iff it passes the built-in
\* type and domain check and the caller-supplied predicate; the custom
\* predicate is never evaluated on a value that failed the built-in check,
\* and no custom predicate makes a value outside the built-in domain valid.
C16_AndSemantics ==
  IsPackLike =>
    \A i \in 1..Len(FieldMap(last.cls)) :
      LET d == FieldMap(last.cls)[i].descriptor
          v == last.self.vals[i]
      IN d.kind \in {"IntField", "BooleanField", "BytesField", "TextField"} =>
           /\ Validator(d, v) <=> (InDomain(d, v) /\ Check(d.check, v))
           /\ \A k \in 1..Len(CheckCalls(d, v)) : InDomain(d, CheckCalls(d, v)[k])
           /\ InDomain(d, v) => CheckCalls(d, v) = <<v>>
           /\ ~InDomain(d, v) => ~Validator(d, v)

C16_Witness ==
  /\ IsPack
  /\ last.cls = "Header"
  /\ last.self.vals = <<Nat0(<<1>>), Nat0(<<1>>), Neg0(<<2>>)>>
  /\ InDomain(FieldMap("Header")[3].descriptor, Neg0(<<2>>))
  /\ last.out.exc = ValidationError("status", "Header", Neg0(<<2>>))

\* every field of the record being packed passes its validator
AllFieldsPass ==
  \A i \in 1..Len(FieldMap(last.cls)) :
    Validator(FieldMap(last.cls)[i].descriptor, last.self.vals[i])

\* C17. PackingError is raised only after validation passed: whenever pack
\* or pack_into ends in PackingError, every field of the record passed its
\* validator; equivalently, if any field of the record fails validation the
\* outcome is ValidationError and never PackingError, nested records (whose
\* own pack runs during flattening) included.
C17_PackingErrorAfterValidation ==
  IsPackLike =>
    /\ last.out.exc.kind = "PackingError" => AllFieldsPass
    /\ ~AllFieldsPass => last.out.exc.kind = "ValidationError"

\* C18. unpack requires a buffer of the exact size: for every buffer longer
\* than schemaSize the size pre-check passes but unpack fails with the
\* UnpackingError that wraps the decode failure, whereas unpack_from(buffer,
\* 0) on the same buffer succeeds and decodes the first schemaSize bytes.
C18_ExactSize ==
  (last.op = "unpack" /\ Len(last.arg) > registry[last.cls].size) =>
    /\ ~last.out.ok
    /\ last.out.exc =
         UnpackingError("struct.error", last.cls, registry[last.cls].size, Len(last.arg))
    /\ last.out.log # <<>>
    /\ unpack_from(registry, last.cls, last.arg, 0).ok
    /\ unpack_from(registry, last.cls, last.arg, 0).v =
         unpack(registry, last.cls, SubSeq(last.arg, 1, registry[last.cls].size)).v

\* C19. unpack and unpack_from never run field validators: every buffer of
\* exactly schemaSize bytes yields a record and no validator is called,
\* even when a decoded value violates its field's custom predicate, so that
\* a record returned by unpack may fail a later pack with ValidationError.
C19_UnpackNeverValidates ==
  (IsUnpackLike /\ last.offset = 0 /\ Len(last.arg) = registry[last.cls].size) =>
    /\ last.out.ok
    /\ last.out.v.t = "rec" /\ last.out.v.cls = last.cls
    /\ \A k \in 1..Len(last.out.log) : last.out.log[k].e # "validate"

AllIntegerFields(cls) ==
  \A i \in 1..Len(FieldMap(cls)) : FieldMap(cls)[i].descriptor.kind = "IntField"

\* C21. Validated integers always encode: for every integer token the Integer
\* descriptor accepts, under any accepted byte order, every value the
\* validator accepts fits the token's wire width, so pack of a record whose
\* fields are all integers and all pass validation never raises PackingError.
C21_ValidatedIntegersEncode ==
  (IsPack /\ AllIntegerFields(last.cls) /\ AllFieldsPass) =>
    /\ \A i \in 1..Len(FieldMap(last.cls)) :
         InWireRange(BaseCode(FieldMap(last.cls)[i].descriptor), last.self.vals[i])
    /\ last.out.exc.kind # "PackingError"
    /\ last.out.ok

\* C22. No failure escapes the error taxonomy: for every compiled schema,
\* every record (whatever its fields hold, a non-record value in a
\* nested-record field included) and every buffer and offset, a failing pack
\* or pack_into ends in ValidationError or PackingError and a failing unpack
\* or unpack_from ends in UnpackingError; no other exception kind is raised
\* by a codec operation.
C22_ErrorTaxonomy ==
  /\ (IsPackLike /\ ~last.out.ok) =>
       last.out.exc.kind \in {"ValidationError", "PackingError"}
  /\ (IsUnpackLike /\ ~last.out.ok) =>
       last.out.exc.kind = "UnpackingError"

====
